---- MODULE Spec2Model ----
(***************************************************************************)
(* A model of densho-elastictools: the pagination functions, SearchResults *)
(* and its presentation, sanitize_input, Searcher and search() of           *)
(* elastictools/search.py, and search_query, Docstore.count and             *)
(* Docstore.search, the index administration of DocstoreManager and         *)
(* cluster() of elastictools/docstore.py.                                   *)
(*                                                                         *)
(* Conventions.  A Python text is a sequence of one-character strings.  An  *)
(* optional integer (None or an int) is a sequence of length 0 or 1.  A     *)
(* call that raises returns a record whose exc field names the exception;   *)
(* a call that returns has exc = "none".                                    *)
(***************************************************************************)
EXTENDS Integers, Sequences, FiniteSets, TLC

VARIABLES
    call,          \* the operation invoked last, with its arguments
    ret,           \* what that operation returned or raised
    must_default,  \* the list object bound to search_query's default must=[]
    sent,          \* the requests that operation sent to the engine, oldest first
    searcher,      \* the Searcher instance: its s and params attributes
    has_prepared,  \* whether a prepare call on the Searcher has returned
    indices        \* the names of the indices the engine holds

vars == <<call, ret, must_default, sent, searcher, has_prepared, indices>>

----------------------------------------------------------------------------
(* Bounds of the model *)

MaxPageSize == 3
MaxPage == 4
MaxOffset == 4
MaxTotal == 4
MaxMust == 3
MaxLen == 4
MaxParams == 2

(* Program constants *)

DEFAULT_LIMIT == 1000
MAX_SIZE == 10000
NESTED_AGG_SIZE == 1000

----------------------------------------------------------------------------
(* Values *)

None == <<>>
Some(n) == <<n>>
IsNone(x) == x = <<>>

Returned(v) == [exc |-> "none", val |-> v]
Raised(e) == [exc |-> e]

(* Python's floor division, offset // limit, for limit # 0 *)
FloorDiv(a, b) ==
    IF b > 0
    THEN IF a >= 0 THEN a \div b ELSE -(((-a) + b - 1) \div b)
    ELSE IF a <= 0 THEN (-a) \div (-b) ELSE -((a + (-b) - 1) \div (-b))

----------------------------------------------------------------------------
(* Pagination math, search.py *)

es_offset_nofloor(pagesize, thispage) == pagesize * (thispage - 1)

es_offset(pagesize, thispage) ==
    LET page == IF thispage - 1 < 0 THEN 0 ELSE thispage - 1
    IN  pagesize * page

start_stop_inclusive(limit, offset) == <<offset, offset + limit - 1>>

start_stop(limit, offset) == <<offset, offset + limit>>

django_page_zero_based(limit, offset) ==
    IF limit = 0 THEN Raised("ZeroDivisionError")
    ELSE Returned(FloorDiv(offset, limit))

django_page(limit, offset) ==
    IF limit = 0 THEN Raised("ZeroDivisionError")
    ELSE Returned(FloorDiv(offset, limit) + 1)

----------------------------------------------------------------------------
(* The engine's answer to a window request: the documents of the window    *)
(* that exist, and the total number of documents the query matches.        *)

RECURSIVE Range(_, _)
Range(a, b) == IF a >= b THEN <<>> ELSE <<a>> \o Range(a + 1, b)

Min(a, b) == IF a < b THEN a ELSE b
Max(a, b) == IF a > b THEN a ELSE b

EngineResponse(total, from, size) ==
    [hits |-> Range(Min(from, total), Min(from + size, total)), total |-> total]

----------------------------------------------------------------------------
(* SearchResults.__init__, search.py.  limit and offset are optional        *)
(* integers: None stands for any value int() rejects.  results is None or   *)
(* <<response>>; a response is true in a condition when it holds hits.      *)

IntOr(x, default) == IF IsNone(x) THEN default ELSE x[1]

ResultsTotal(count, results, objects) ==
    IF results # None /\ Len(results[1].hits) > 0
    THEN results[1].total
    ELSE IF Len(objects) > 0 THEN Len(objects) ELSE count

ResultsObjects(results, objects) ==
    IF results # None /\ Len(results[1].hits) > 0
    THEN results[1].hits
    ELSE IF Len(objects) > 0 THEN objects ELSE <<>>

PrevOffset_unguarded(limit, offset) == Some(offset - limit)

PrevOffset(limit, offset) ==
    IF offset - limit < 0 THEN None ELSE Some(offset - limit)

NextOffset_strict(limit, offset, total) ==
    IF offset + limit > total THEN None ELSE Some(offset + limit)

NextOffset(limit, offset, total) ==
    IF offset + limit >= total THEN None ELSE Some(offset + limit)

SearchResults(params, query, count, results, objects, limitArg, offsetArg) ==
    LET limit == IntOr(limitArg, DEFAULT_LIMIT)
        offset == IntOr(offsetArg, 0)
        total == ResultsTotal(count, results, objects)
        this_page == django_page(limit, offset)
    IN  IF this_page.exc # "none" THEN this_page
        ELSE Returned([
            params |-> params,
            query |-> query,
            objects |-> ResultsObjects(results, objects),
            total |-> total,
            limit |-> limit,
            offset |-> offset,
            prev_offset |-> PrevOffset(limit, offset),
            next_offset |-> NextOffset(limit, offset, total),
            page_size |-> limit,
            this_page |-> this_page.val,
            page_start |-> (this_page.val - 1) * limit,
            page_next |-> this_page.val * limit])

----------------------------------------------------------------------------
(* Searcher.execute, search.py.  searcher.s is None before a query object   *)
(* exists.  Slicing a query object with a negative bound raises.            *)

ExecuteOutcome(self, limit, offset, engineTotal) ==
    IF self.s = None
    THEN [result |-> Raised("Exception"), sent |-> <<>>]
    ELSE LET ss == start_stop(limit, offset)
             start == ss[1]
             stop == ss[2]
         IN  IF start < 0 \/ stop < 0
             THEN [result |-> Raised("ValueError"), sent |-> <<>>]
             ELSE LET size == Max(0, stop - start)
                      response == EngineResponse(engineTotal, start, size)
                  IN  [result |-> SearchResults(self.params, self.s[1], 0,
                                                <<response>>, <<>>,
                                                Some(limit), Some(offset)),
                       sent |-> <<[op |-> "search", query |-> self.s[1],
                                   from |-> start, size |-> size]>>]

----------------------------------------------------------------------------
(* Query assembly, docstore.py search_query.  The default value of must is  *)
(* one list object, made when the function is defined and bound again at    *)
(* every call that gives no must: must_default is that object.  An argument *)
(* that may be omitted is <<>> when omitted and <<value>> when given.  The   *)
(* body's 'aggregations' key is None when the body has no such key.         *)

Omitted == <<>>
Given(v) == <<v>>

MatchClause(text) == [kind |-> "match", field |-> "_all", text |-> text]

(* the list the local name must is bound to when the body is built *)
MustList(mustDefault, must) == IF must = Omitted THEN mustDefault ELSE must[1]

SearchQueryBody(mustDefault, text, must, should, mustnot, aggs) ==
    LET before == MustList(mustDefault, must)
        after == IF text # "" THEN Append(before, MatchClause(text)) ELSE before
    IN  [query |-> [bool |-> [must |-> after, should |-> should, must_not |-> mustnot]],
         aggregations |-> IF aggs # {} THEN Some(aggs) ELSE None]

(* search_query returns the body; it has no raise statement *)
search_query(mustDefault, text, must, should, mustnot, aggs) ==
    Returned(SearchQueryBody(mustDefault, text, must, should, mustnot, aggs))

(* the default list object after the call: appended to in place when the    *)
(* call gave a text and no must                                             *)
MustDefaultAfter(mustDefault, text, must) ==
    IF must = Omitted /\ text # "" THEN Append(mustDefault, MatchClause(text))
    ELSE mustDefault

----------------------------------------------------------------------------
(* Docstore.count and Docstore.search, docstore.py.  query is <<>> for an   *)
(* empty dict (or None) and <<body>> for a body.  Each returns what the     *)
(* engine answered.                                                        *)

(* Docstore.index_name *)
index_name(index_prefix, model) == index_prefix \o model

IndexNames(index_prefix, doctypes) ==
    [i \in 1 .. Len(doctypes) |-> <<index_prefix, doctypes[i]>>]

(* clean_sort: the list itself when it is a non-empty list of lists, else '' *)
clean_sort(sort) ==
    IF Len(sort) > 0 /\ \A i \in 1 .. Len(sort) : sort[i].islist
    THEN [i \in 1 .. Len(sort) |-> sort[i].v]
    ELSE <<>>

DocstoreCount_unguarded(index_prefix, doctypes, query, answer) ==
    [result |-> Returned(answer),
     sent |-> <<[op |-> "count", index |-> IndexNames(index_prefix, doctypes),
                 body |-> query]>>]

DocstoreCount(index_prefix, doctypes, query, answer) ==
    IF query = <<>>
    THEN [result |-> Raised("Exception"), sent |-> <<>>]
    ELSE [result |-> Returned(answer),
          sent |-> <<[op |-> "count", index |-> IndexNames(index_prefix, doctypes),
                      body |-> query]>>]

DocstoreSearch(index_prefix, doctypes, query, sort, from_, size, answer) ==
    IF query = <<>>
    THEN [result |-> Raised("Exception"), sent |-> <<>>]
    ELSE [result |-> Returned(answer),
          sent |-> <<[op |-> "search", index |-> IndexNames(index_prefix, doctypes),
                      body |-> query, sort |-> clean_sort(sort),
                      from |-> from_, size |-> size]>>]

----------------------------------------------------------------------------
(* Index administration, docstore.py DocstoreManager.  The engine holds a   *)
(* set of indices; every call of the client is logged as a request.  A      *)
(* status is a record: t is the Python type of the value returned ("dict",  *)
(* "str" for a JSON text, "response" for what the engine answered), status  *)
(* and message are the entries it holds.                                    *)

Doctypes3 == <<"collection", "entity", "segment">>
AllIndices == {"ddr" \o Doctypes3[i] : i \in DOMAIN Doctypes3}

(* self.es.indices.exists(index=indexname) *)
ExistsRequest(indexname) == [op |-> "exists", index |-> indexname]

delete_index_unchecked(existing, indexname) ==
    [result |-> IF indexname \in existing
                THEN Returned([t |-> "response", acknowledged |-> TRUE])
                ELSE Raised("NotFoundError"),
     sent |-> <<[op |-> "delete", index |-> indexname]>>,
     indices |-> existing \ {indexname}]

delete_index(existing, indexname) ==
    IF indexname \in existing
    THEN [result |-> Returned([t |-> "response", acknowledged |-> TRUE]),
          sent |-> <<ExistsRequest(indexname), [op |-> "delete", index |-> indexname]>>,
          indices |-> existing \ {indexname}]
    ELSE [result |-> Returned([t |-> "dict", name |-> indexname, status |-> 500,
                               message |-> "Index does not exist"]),
          sent |-> <<ExistsRequest(indexname)>>,
          indices |-> existing]

(* one delete_index per class, on index_name(doctype), in order *)
RECURSIVE delete_indices(_, _, _)
delete_indices(existing, index_prefix, doctypes) ==
    IF doctypes = <<>>
    THEN [result |-> Returned(<<>>), sent |-> <<>>, indices |-> existing]
    ELSE LET first == delete_index(existing, index_prefix \o Head(doctypes))
             rest == delete_indices(first.indices, index_prefix, Tail(doctypes))
         IN  IF first.result.exc # "none"
             THEN first
             ELSE IF rest.result.exc # "none"
             THEN [rest EXCEPT !.sent = first.sent \o rest.sent]
             ELSE [result |-> Returned(<<first.result.val>> \o rest.result.val),
                   sent |-> first.sent \o rest.sent,
                   indices |-> rest.indices]

(* create_index.  The index is made by the init of the document class,     *)
(* which asks the engine whether the index exists and creates it.  out is   *)
(* what init returns, None or <<response>>; kept tells whether the engine   *)
(* holds the index when create_index asks again: the engine is shared, and  *)
(* an index just made can be gone.  No branch binds status when out is      *)
(* false and the index is missing.                                          *)
create_index(existing, indexname, out, kept) ==
    IF indexname \in existing
    THEN [result |-> Returned([t |-> "str", status |-> 400, message |-> "Index exists"]),
          sent |-> <<ExistsRequest(indexname)>>,
          indices |-> existing]
    ELSE LET made == <<ExistsRequest(indexname), ExistsRequest(indexname),
                       [op |-> "create", index |-> indexname]>>
             after == IF kept THEN existing \cup {indexname} ELSE existing
         IN  IF out # None
             THEN [result |-> Returned(out[1]), sent |-> made, indices |-> after]
             ELSE [result |-> IF kept
                              THEN Returned([t |-> "dict", name |-> indexname,
                                             present |-> TRUE])
                              ELSE Raised("UnboundLocalError"),
                   sent |-> made \o <<ExistsRequest(indexname)>>,
                   indices |-> after]

(* one create_index per class, on index_name(doctype), in order *)
RECURSIVE create_indices(_, _, _, _, _)
create_indices(existing, index_prefix, doctypes, out, kept) ==
    IF doctypes = <<>>
    THEN [result |-> Returned(<<>>), sent |-> <<>>, indices |-> existing]
    ELSE LET first == create_index(existing, index_name(index_prefix, Head(doctypes)),
                                   out, kept)
             rest == create_indices(first.indices, index_prefix, Tail(doctypes),
                                    out, kept)
         IN  IF first.result.exc # "none"
             THEN first
             ELSE IF rest.result.exc # "none"
             THEN [rest EXCEPT !.sent = first.sent \o rest.sent]
             ELSE [result |-> Returned(<<first.result.val>> \o rest.result.val),
                   sent |-> first.sent \o rest.sent,
                   indices |-> rest.indices]

(* newApi: the engine's version number is >= '2.3' as Python compares texts *)
reindex(existing, source, dest, newApi) ==
    IF source \notin existing
    THEN [result |-> Returned([t |-> "str", status |-> 500,
                               message |-> "Source index does not exist"]),
          sent |-> <<ExistsRequest(source)>>]
    ELSE IF dest \notin existing
    THEN [result |-> Returned([t |-> "str", status |-> 500,
                               message |-> "Destination index does not exist"]),
          sent |-> <<ExistsRequest(source), ExistsRequest(dest)>>]
    ELSE [result |-> Returned([t |-> "response", source |-> source, dest |-> dest]),
          sent |-> <<ExistsRequest(source), ExistsRequest(dest), [op |-> "info"],
                     [op |-> "reindex", source |-> source, dest |-> dest,
                      api |-> IF newApi THEN "es.reindex" ELSE "helpers.reindex"]>>]

----------------------------------------------------------------------------
(* cluster(), docstore.py.  The clusters argument is a value: t is its      *)
(* Python type, text its content when it is a str, items its entries when   *)
(* it is a dict, in order; an entry is a cluster name and its ips, or a     *)
(* value that cannot be iterated.  ipaddr_port is a str, given as its       *)
(* parts between colons, or None.                                           *)

Config(t, text, items) == [t |-> t, text |-> text, items |-> items]

ClusterItem(name, ips, iterable) == [name |-> name, ips |-> ips, iterable |-> iterable]

SampleClusters ==
    <<ClusterItem("green", <<"10.0.0.1">>, TRUE),
      ClusterItem("blue", <<"10.0.0.2", "10.0.0.1">>, TRUE)>>

(* json.loads on the texts of the specification; any other text of it is    *)
(* no JSON document                                                         *)
json_loads(text) ==
    CASE text = "{\"green\":[\"10.0.0.1\"],\"blue\":[\"10.0.0.2\",\"10.0.0.1\"]}"
            -> Returned(Config("dict", "", SampleClusters))
      [] text = "{\"green\":5}"
            -> Returned(Config("dict", "", <<ClusterItem("green", <<>>, FALSE)>>))
      [] text = "{}" -> Returned(Config("dict", "", <<>>))
      [] text = "[\"10.0.0.1\"]" -> Returned(Config("list", "", <<>>))
      [] text = "null" -> Returned(Config("NoneType", "", <<>>))
      [] OTHER -> Raised("JSONDecodeError")

(* _clusters_by_ip: an ip named by two clusters keeps the later one *)
RECURSIVE ClustersByIp(_)
ClustersByIp(items) ==
    IF items = <<>> THEN [ip \in {} |-> ""]
    ELSE LET before == ClustersByIp(SubSeq(items, 1, Len(items) - 1))
             last == items[Len(items)]
             ips == {last.ips[i] : i \in 1 .. Len(last.ips)}
         IN  [ip \in (DOMAIN before) \cup ips |->
                 IF ip \in ips THEN last.name ELSE before[ip]]

cluster(clusters, ipaddr_port) ==
    LET parsed == IF clusters.t = "str" THEN json_loads(clusters.text)
                  ELSE Returned(clusters)
    IN  IF clusters.t = "str" /\ clusters.text = ""
        THEN Returned("docstore_clusters is empty")
        ELSE IF parsed.exc # "none"
        THEN Returned("JSONDecodeError on docstore_clusters")
        ELSE IF parsed.val.t # "dict" THEN Raised("AssertionError")
        ELSE IF ipaddr_port.t # "str" THEN Raised("AssertionError")
        ELSE IF \E i \in 1 .. Len(parsed.val.items) : ~parsed.val.items[i].iterable
        THEN Raised("TypeError")
        ELSE LET by_ip == ClustersByIp(parsed.val.items)
                 ipaddr == ipaddr_port.parts[1]
             IN  Returned(IF ipaddr \in DOMAIN by_ip THEN by_ip[ipaddr] ELSE "unknown")

----------------------------------------------------------------------------
(* sanitize_input, search.py.  A value is a record: t is its Python type    *)
(* ("str", "bool" or "list") and v its content: the text of a str, the      *)
(* word True or False of a bool, the items of a list.                       *)

Str(s) == [t |-> "str", v |-> s]
Bool(b) == [t |-> "bool", v |-> IF b THEN <<"True">> ELSE <<"False">>]
ListOf(s) == [t |-> "list", v |-> s]

(* a raw string literal, so the backslash is one of its characters *)
BAD_SEARCH_CHARS == <<"!", "+", "/", ":", "[", "\\", "]", "^", "{", "}", "~">>

RemoveChar(text, c) == SelectSeq(text, LAMBDA x : x # c)

(* for c in BAD_SEARCH_CHARS: text = text.replace(c, '') *)
RECURSIVE RemoveChars(_, _)
RemoveChars(text, chars) ==
    IF chars = <<>> THEN text
    ELSE RemoveChars(RemoveChar(text, Head(chars)), Tail(chars))

(* text.replace('  ', ' '): one pass, left to right, over the occurrences   *)
(* of two spaces that do not overlap                                        *)
RECURSIVE ReplaceDoubleSpace(_)
ReplaceDoubleSpace(text) ==
    IF Len(text) < 2 THEN text
    ELSE IF text[1] = " " /\ text[2] = " "
         THEN <<" ">> \o ReplaceDoubleSpace(SubSeq(text, 3, Len(text)))
         ELSE <<text[1]>> \o ReplaceDoubleSpace(Tail(text))

CountOf(text, c) == Len(SelectSeq(text, LAMBDA x : x = c))

IndicesOf(text, c) == {i \in 1 .. Len(text) : text[i] = c}

SetMax(S) == CHOOSE x \in S : \A y \in S : y <= x
SetMin(S) == CHOOSE x \in S : \A y \in S : x <= y

(* one match of the pattern (any)(quote)(any) replaced by group 1, a        *)
(* backslash, the quote and group 2: within a text that has no newline the  *)
(* greedy first group runs to the last quote                                *)
EscapeLastQuote(line) ==
    IF IndicesOf(line, "\"") = {} THEN line
    ELSE LET i == SetMax(IndicesOf(line, "\""))
         IN  SubSeq(line, 1, i - 1) \o <<"\\", "\"">> \o SubSeq(line, i + 1, Len(line))

(* re.sub of that pattern over the text: the dot matches no newline, so    *)
(* the pattern matches once in every line that holds a quote                *)
RECURSIVE ReSubQuote(_)
ReSubQuote(text) ==
    IF IndicesOf(text, "\n") = {} THEN EscapeLastQuote(text)
    ELSE LET n == SetMin(IndicesOf(text, "\n"))
         IN  EscapeLastQuote(SubSeq(text, 1, n - 1)) \o <<"\n">>
             \o ReSubQuote(SubSeq(text, n + 1, Len(text)))

SanitizeText(text) ==
    LET stripped == ReplaceDoubleSpace(RemoveChars(text, BAD_SEARCH_CHARS))
    IN  IF CountOf(stripped, "\"") % 2 = 1 THEN ReSubQuote(stripped) ELSE stripped

sanitize_input(value) ==
    IF value.t = "bool" THEN Returned(value)
    ELSE IF value.t # "str" THEN Raised("AssertionError")
    ELSE Returned(Str(SanitizeText(value.v)))

----------------------------------------------------------------------------
(* Searcher.prepare, search.py.  A dict is a function from its keys.  The   *)
(* query object s records what prepare asked of it: the indices, the        *)
(* returned fields, the sort, the clauses given to s.query in order, the    *)
(* term filters given to s.filter, and the aggregation buckets.             *)

Truthy(value) ==
    IF value.t = "bool" THEN value.v = <<"True">>
    ELSE IF value.t = "int" THEN value.v # <<"0">>
    ELSE Len(value.v) > 0

(* params.get(key) is a true value *)
Has(params, key) == key \in DOMAIN params /\ Truthy(params[key])

Restrict(f, S) == [k \in (DOMAIN f) \cap S |-> f[k]]

Clause(kind, field, value) == [kind |-> kind, field |-> field, value |-> value]

(* s.filter('term', field=value); denorm: the field is the key plus '_id' *)
TermFilter(key, denorm, value) == [field |-> key, denorm |-> denorm, value |-> value]

(* self.params after the sanitizing copy: None when a value makes           *)
(* sanitize_input raise; the params of before when the argument is empty    *)
SanitizedParams(self, params) ==
    IF DOMAIN params = {} THEN Some(self.params)
    ELSE IF \E k \in DOMAIN params : sanitize_input(params[k]).exc # "none" THEN None
    ELSE Some([k \in DOMAIN params |-> sanitize_input(params[k]).val])

(* scrub fields not in whitelist: 'page' is kept too *)
Scrub(params, params_whitelist) == Restrict(params, params_whitelist \cup {"page"})

(* the key whose value the primary clause uses, or none *)
PrimaryKey(params) ==
    IF Has(params, "match_all") THEN "match_all"
    ELSE IF Has(params, "fulltext") THEN "fulltext"
    ELSE IF Has(params, "creators") THEN "creators"
    ELSE IF Has(params, "persons") THEN "persons"
    ELSE IF Has(params, "topics") THEN "topics"
    ELSE IF Has(params, "facility") THEN "facility"
    ELSE "none"

PrimaryClauses(params) ==
    LET key == PrimaryKey(params)
    IN  IF key = "none" THEN <<>>
        ELSE IF key = "match_all" THEN <<Clause("match_all", "", Str(<<>>))>>
        ELSE IF key = "fulltext" THEN <<Clause("query_string", "fields", params[key])>>
        ELSE IF key \in {"creators", "persons"}
             THEN <<Clause("nested", key \o ".namepart", params[key])>>
        ELSE <<Clause("nested", key \o ".id", params[key])>>

(* '%s-*' % parent *)
ParentPattern(parent) == Str(parent.v \o <<"-", "*">>)

ParentClauses(params) ==
    IF Has(params, "parent")
    THEN <<Clause("wildcard", "id", ParentPattern(params["parent"]))>>
    ELSE <<>>

(* the keys popped from params before the filters are made: every primary   *)
(* key but match_all, and parent                                            *)
PoppedKeys(params) ==
    (IF PrimaryKey(params) \in {"none", "match_all"} THEN {} ELSE {PrimaryKey(params)})
    \cup (IF Has(params, "parent") THEN {"parent"} ELSE {})

ParamFilters_nopop(params, params_whitelist, fields_nested) ==
    {TermFilter(k, TRUE, params[k]) : k \in (DOMAIN params) \cap fields_nested}
    \cup {TermFilter(k, FALSE, params[k]) :
             k \in {x \in ((DOMAIN params) \ fields_nested) \cap params_whitelist :
                       Truthy(params[x])}}

ParamFilters(params, params_whitelist, fields_nested) ==
    LET left == (DOMAIN params) \ PoppedKeys(params)
    IN  {TermFilter(k, TRUE, params[k]) : k \in left \cap fields_nested}
        \cup {TermFilter(k, FALSE, params[k]) :
                 k \in {x \in (left \ fields_nested) \cap params_whitelist :
                           Truthy(params[x])}}

Aggregations(fields_agg) ==
    {IF name \in {"topics", "facility"}
     THEN [name |-> name, kind |-> "nested", field |-> name \o ".id",
           size |-> Some(NESTED_AGG_SIZE)]
     ELSE [name |-> name, kind |-> "terms", field |-> fields_agg[name], size |-> None] :
        name \in DOMAIN fields_agg}

(* whether prepare adds the published_rg filter: decided on the params as   *)
(* passed, before any key is scrubbed                                       *)
EncycRg(params) ==
    "published_encyc" \notin DOMAIN params /\ "published_rg" \in DOMAIN params

BuildSearch(rawParams, params, cfg) ==
    [index |-> cfg.search_models,
     source |-> cfg.fields,
     sort |-> cfg.sort,
     query |-> PrimaryClauses(params) \o ParentClauses(params),
     filters |-> (IF EncycRg(rawParams)
                  THEN {TermFilter("published_rg", FALSE, Bool(TRUE))} ELSE {})
                 \cup ParamFilters(params, cfg.params_whitelist, cfg.fields_nested),
     aggs |-> Aggregations(cfg.fields_agg)]

(* cfg holds the other arguments: params_whitelist, search_models, sort,    *)
(* fields, fields_nested, fields_agg.  The result is the exception raised   *)
(* (or none) and the Searcher as the call leaves it.                        *)
prepare_unassigned(self, rawParams, cfg) == [exc |-> "none", self |-> self]

prepare(self, rawParams, cfg) ==
    LET copied == SanitizedParams(self, rawParams)
    IN  IF copied = None
        THEN [exc |-> "AssertionError", self |-> self]
        ELSE LET kept == [self EXCEPT !.params = copied[1]]
                 params == Scrub(copied[1], cfg.params_whitelist)
             IN  IF Has(params, "models")
                 THEN [exc |-> "NameError", self |-> kept]
                 ELSE [exc |-> "none",
                       self |-> [kept EXCEPT !.s = Some(BuildSearch(rawParams, params, cfg))]]

----------------------------------------------------------------------------
(* SearchResults.to_dict, _dict and _make_prevnext_url, search.py.  A text  *)
(* is a sequence of tokens: a key, a character of a value, a number, or one *)
(* of the separators = & ? and a space.  The params are the items of a      *)
(* dict in order, each a key and a value; an int value is [t |-> int] with  *)
(* its digits as v.  A request is None or <<request>>: its GET items, its   *)
(* scheme, its HTTP_HOST (None when META has none) and its path_info.  The  *)
(* documents of the page are formatted by functions of the caller and are   *)
(* not part of the model.                                                   *)

IntValue(n) == [t |-> "int", v |-> <<ToString(n)>>]

(* _strdammit: the text of a value *)
strdammit(something) == something.v

(* if params.get(key): params.pop(key) *)
PopTruthy(items, key) ==
    SelectSeq(items, LAMBDA it : ~(it.key = key /\ Truthy(it.val)))

(* '&'.join of key + '=' + _strdammit(val) over the items *)
RECURSIVE JoinAmp(_)
JoinAmp(items) ==
    IF items = <<>> THEN <<>>
    ELSE <<items[1].key, "=">> \o strdammit(items[1].val)
         \o (IF Len(items) > 1 THEN <<"&">> \o JoinAmp(Tail(items)) ELSE <<>>)

(* urllib.parse.quote on the tokens of the model: the separators and the    *)
(* space are percent-encoded, keys, letters and digits are kept             *)
quote(text) ==
    [i \in DOMAIN text |->
        CASE text[i] = "&" -> "%26"
          [] text[i] = "=" -> "%3D"
          [] text[i] = "?" -> "%3F"
          [] text[i] = " " -> "%20"
          [] OTHER -> text[i]]

make_prevnext_url(query, request) ==
    IF request # None
    THEN LET path_info == [i \in DOMAIN request[1].path_info |->
                              IF request[1].path_info[i] = " " THEN "%20"
                              ELSE request[1].path_info[i]]
             host == IF request[1].HTTP_HOST = None THEN "testserver"
                     ELSE request[1].HTTP_HOST[1]
         IN  <<request[1].scheme, "://", host>> \o path_info \o <<"?">> \o query
    ELSE <<"?">> \o quote(query)

(* SearchResults._dict *)
SearchResultsDict(self, params, request) ==
    LET kept == PopTruthy(PopTruthy(PopTruthy(params, "page"), "limit"), "offset")
        query_string == JoinAmp(kept)
        Api(offset) ==
            make_prevnext_url(
                query_string \o <<"&", "limit", "=", ToString(self.limit),
                                  "&", "offset", "=", ToString(offset)>>,
                request)
    IN  [total |-> self.total,
         limit |-> self.limit,
         offset |-> self.offset,
         prev_offset |-> self.prev_offset,
         next_offset |-> self.next_offset,
         page_size |-> self.page_size,
         this_page |-> self.this_page,
         num_this_page |-> Len(self.objects),
         query |-> self.query,
         prev_api |-> IF self.prev_offset # None THEN Api(self.prev_offset[1]) ELSE <<>>,
         next_api |-> IF self.next_offset # None THEN Api(self.next_offset[1]) ELSE <<>>]

(* SearchResults.to_dict: the params are the request's, or self.params when *)
(* there is no request and self.params is not empty; no other branch binds  *)
(* params                                                                   *)
to_dict(self, request) ==
    IF request # None THEN Returned(SearchResultsDict(self, request[1].GET, request))
    ELSE IF self.params # <<>> THEN Returned(SearchResultsDict(self, self.params, request))
    ELSE Raised("UnboundLocalError")

----------------------------------------------------------------------------
(* The pagination specification: the pagination functions, SearchResults    *)
(* built each of its three ways, and execute on a Searcher constructed      *)
(* with or without a search object.                                         *)

PageSizes == (-1 .. MaxPageSize) \cup {10}
Pages == -1 .. MaxPage
Offsets == (-1 .. MaxOffset) \cup {10, 20}
Totals == (0 .. MaxTotal) \cup {25}

NoParams == <<>>
SearchObject == [index |-> "idx"]
Pending == [exc |-> "pending"]

Responses ==
    {EngineResponse(t, f, z) : t \in Totals, f \in 0 .. MaxOffset, z \in 0 .. MaxPageSize}

LimitArgs == {None} \cup {Some(n) : n \in PageSizes}
OffsetArgs == {None} \cup {Some(n) : n \in Offsets}

(* The invocations the pagination specification draws from *)
PageCalls ==
    {[op |-> "es_offset", pagesize |-> ps, thispage |-> p] :
        ps \in PageSizes, p \in Pages}
    \cup
    {[op |-> "start_stop", limit |-> l, offset |-> o] :
        l \in PageSizes, o \in Offsets}
    \cup
    {[op |-> "django_page", limit |-> l, offset |-> o, of_page |-> None] :
        l \in PageSizes, o \in Offsets}
    \cup
    {[op |-> "SearchResults", built |-> "results", results |-> <<r>>,
      objects |-> <<>>, count |-> 0, limit |-> l, offset |-> o] :
        r \in Responses, l \in LimitArgs, o \in OffsetArgs}
    \cup
    {[op |-> "SearchResults", built |-> "objects", results |-> None,
      objects |-> Range(0, n), count |-> 0, limit |-> l, offset |-> o] :
        n \in 0 .. MaxTotal, l \in LimitArgs, o \in OffsetArgs}
    \cup
    {[op |-> "SearchResults", built |-> "count", results |-> None,
      objects |-> <<>>, count |-> c, limit |-> l, offset |-> o] :
        c \in Totals, l \in LimitArgs, o \in OffsetArgs}
    \cup
    {[op |-> "execute", limit |-> l, offset |-> o, engineTotal |-> t] :
        l \in PageSizes, o \in Offsets, t \in Totals}

InitPage ==
    /\ call \in PageCalls
    /\ ret = Pending
    /\ must_default = <<>>
    /\ has_prepared = FALSE
    /\ indices = AllIndices
    /\ sent = <<>>
    /\ searcher \in {[s |-> None, params |-> NoParams],
                      [s |-> <<SearchObject>>, params |-> NoParams]}

EsOffsetCall ==
    /\ call.op = "es_offset" /\ ret.exc = "pending"
    /\ ret' = Returned(es_offset(call.pagesize, call.thispage))
    /\ UNCHANGED <<call, must_default, sent, searcher, has_prepared, indices>>

StartStopCall ==
    /\ call.op = "start_stop" /\ ret.exc = "pending"
    /\ ret' = Returned(start_stop(call.limit, call.offset))
    /\ UNCHANGED <<call, must_default, sent, searcher, has_prepared, indices>>

DjangoPageCall ==
    /\ call.op = "django_page" /\ ret.exc = "pending"
    /\ ret' = django_page(call.limit, call.offset)
    /\ UNCHANGED <<call, must_default, sent, searcher, has_prepared, indices>>

(* django_page on the offset es_offset has just returned, same page size *)
DjangoPageOfEsOffset ==
    /\ call.op = "es_offset" /\ ret.exc = "none"
    /\ call' = [op |-> "django_page", limit |-> call.pagesize, offset |-> ret.val,
                of_page |-> Some(call.thispage)]
    /\ ret' = django_page(call.pagesize, ret.val)
    /\ UNCHANGED <<must_default, sent, searcher, has_prepared, indices>>

(* SearchResults(results=..), SearchResults(objects=..), SearchResults(count=..) *)
SearchResultsCall ==
    /\ call.op = "SearchResults" /\ ret.exc = "pending"
    /\ ret' = SearchResults(NoParams, NoParams, call.count, call.results,
                            call.objects, call.limit, call.offset)
    /\ UNCHANGED <<call, must_default, sent, searcher, has_prepared, indices>>

(* searcher.execute(limit, offset) against an engine whose index holds      *)
(* call.engineTotal documents matching the query                            *)
ExecutePage ==
    /\ call.op = "execute" /\ ret.exc = "pending"
    /\ LET out == ExecuteOutcome(searcher, call.limit, call.offset, call.engineTotal)
       IN  /\ ret' = out.result
           /\ sent' = out.sent
    /\ UNCHANGED <<call, must_default, searcher, has_prepared, indices>>

NextPage ==
    \/ EsOffsetCall
    \/ StartStopCall
    \/ DjangoPageCall
    \/ DjangoPageOfEsOffset
    \/ SearchResultsCall
    \/ ExecutePage

SpecPage == InitPage /\ [][NextPage]_vars

----------------------------------------------------------------------------
(* The query specification: any sequence of search_query, Docstore.count    *)
(* and Docstore.search calls in one process.                                *)

NoCall == [op |-> "none"]

Texts == {"", "a", "b"}
TermsClause == [kind |-> "terms", field |-> "language"]
RangeClause == [kind |-> "range", field |-> "date"]
MustArgs == {Omitted, Given(<<>>), Given(<<TermsClause>>)}
ClauseLists == {<<>>, <<RangeClause>>}
AggsArgs == {{}, {"format"}}

Doctypes == {<<>>, <<"entity", "segment">>}
SortPair == [islist |-> TRUE, v |-> <<"title", "asc">>]
SortWord == [islist |-> FALSE, v |-> <<"whatever">>]
Sorts == {<<>>, <<SortPair>>, <<SortPair, SortWord>>}
SampleBody == SearchQueryBody(<<>>, "a", Omitted, <<>>, <<>>, {})

(* the queries a caller passes: an empty dict, a body it holds, or the body *)
(* search_query has just returned                                           *)
QueryArgs ==
    {<<>>, <<SampleBody>>}
    \cup (IF call.op = "search_query" /\ ret.exc = "none" THEN {<<ret.val>>} ELSE {})

InitQuery ==
    /\ call = NoCall
    /\ ret = Returned(None)
    /\ must_default = <<>>
    /\ has_prepared = FALSE
    /\ indices = AllIndices
    /\ sent = <<>>
    /\ searcher = [s |-> None, params |-> NoParams]

SearchQueryCall ==
    \E text \in Texts, must \in MustArgs, should \in ClauseLists,
       mustnot \in ClauseLists, aggs \in AggsArgs :
        /\ Len(MustDefaultAfter(must_default, text, must)) <= MaxMust
        /\ call' = [op |-> "search_query", text |-> text, must |-> must,
                    should |-> should, mustnot |-> mustnot, aggs |-> aggs]
        /\ ret' = search_query(must_default, text, must, should, mustnot, aggs)
        /\ must_default' = MustDefaultAfter(must_default, text, must)
        /\ sent' = <<>>
        /\ UNCHANGED <<searcher, has_prepared, indices>>

DocstoreCountCall ==
    \E doctypes \in Doctypes, query \in QueryArgs, n \in 0 .. 1 :
        LET out == DocstoreCount("ddr", doctypes, query, [count |-> n])
        IN  /\ call' = [op |-> "count", doctypes |-> doctypes, query |-> query]
            /\ ret' = out.result
            /\ sent' = out.sent
            /\ UNCHANGED <<must_default, searcher, has_prepared, indices>>

DocstoreSearchCall ==
    \E doctypes \in Doctypes, query \in QueryArgs, sort \in Sorts, n \in 0 .. 1 :
        LET out == DocstoreSearch("ddr", doctypes, query, sort, 0, MAX_SIZE,
                                  EngineResponse(n, 0, MAX_SIZE))
        IN  /\ call' = [op |-> "search", doctypes |-> doctypes, query |-> query,
                        sort |-> sort]
            /\ ret' = out.result
            /\ sent' = out.sent
            /\ UNCHANGED <<must_default, searcher, has_prepared, indices>>

NextQuery ==
    \/ SearchQueryCall
    \/ DocstoreCountCall
    \/ DocstoreSearchCall

SpecQuery == InitQuery /\ [][NextQuery]_vars

----------------------------------------------------------------------------
(* The sanitizing specification: sanitize_input applied to one value: any   *)
(* text of at most MaxLen characters, a boolean, or a list.                 *)

Chars == {BAD_SEARCH_CHARS[i] : i \in 1 .. Len(BAD_SEARCH_CHARS)}
             \cup {"a", " ", "\"", "\n"}

TextsUpTo(n) == UNION {[1 .. k -> Chars] : k \in 0 .. n}

SanitizeCalls ==
    {[op |-> "sanitize_input", text |-> Str(s)] : s \in TextsUpTo(MaxLen)}
    \cup {[op |-> "sanitize_input", text |-> Bool(b)] : b \in BOOLEAN}
    \cup {[op |-> "sanitize_input", text |-> ListOf(<<"a">>)]}

InitSanitize ==
    /\ call \in SanitizeCalls
    /\ ret = Pending
    /\ must_default = <<>>
    /\ has_prepared = FALSE
    /\ indices = AllIndices
    /\ sent = <<>>
    /\ searcher = [s |-> None, params |-> NoParams]

SanitizeInputCall ==
    /\ call.op = "sanitize_input" /\ ret.exc = "pending"
    /\ ret' = sanitize_input(call.text)
    /\ UNCHANGED <<call, must_default, sent, searcher, has_prepared, indices>>

NextSanitize == SanitizeInputCall

SpecSanitize == InitSanitize /\ [][NextSanitize]_vars

----------------------------------------------------------------------------
(* The preparation specification: one prepare call on a Searcher            *)
(* constructed without a search object, then execute calls on it.  The      *)
(* params hold at most MaxParams keys.                                      *)

Keys == {"match_all", "fulltext", "creators", "persons", "topics", "facility",
         "parent", "models", "page", "format", "junk", "published_rg",
         "published_encyc"}

Values == {Str(<<>>), Str(<<"a">>), Str(<<"b", "!">>), Bool(TRUE), ListOf(<<"a">>)}

ParamSets ==
    UNION {[S -> Values] : S \in {T \in SUBSET Keys : Cardinality(T) <= MaxParams}}

(* the settings the comments at the head of search.py give *)
BrowseConfig ==
    [params_whitelist |-> {"match_all", "fulltext", "creators", "persons", "topics",
                           "facility", "parent", "models", "format"},
     search_models |-> <<"ddrcollection", "ddrentity", "ddrsegment">>,
     sort |-> <<>>,
     fields |-> <<"id", "title">>,
     fields_nested |-> {"facility", "topics"},
     fields_agg |-> [facility |-> "facility.id", format |-> "format",
                     topics |-> "topics.id"]]

(* a narrow whitelist that names page, a sort, no nested field, one bucket *)
PlainConfig ==
    [params_whitelist |-> {"fulltext", "parent", "format", "page"},
     search_models |-> <<"ddrentity">>,
     sort |-> <<"title">>,
     fields |-> <<"id">>,
     fields_nested |-> {},
     fields_agg |-> [format |-> "format"]]

Configs == {BrowseConfig, PlainConfig}

FreshSearcher == [s |-> None, params |-> NoParams]

PrepareCalls ==
    {[op |-> "prepare", params |-> ps, cfg |-> cfg, prior |-> FreshSearcher] :
        ps \in ParamSets, cfg \in Configs}

(* execute(limit, offset) and the total the engine reports: a window inside *)
(* the hits and one beyond them                                             *)
ExecArgs == {<<10, 0, 25>>, <<10, 30, 25>>}

InitPrepare ==
    /\ call \in PrepareCalls
    /\ ret = Pending
    /\ must_default = <<>>
    /\ has_prepared = FALSE
    /\ indices = AllIndices
    /\ sent = <<>>
    /\ searcher = FreshSearcher

PrepareCall ==
    /\ call.op = "prepare" /\ ret.exc = "pending"
    /\ LET out == prepare(searcher, call.params, call.cfg)
       IN  /\ ret' = IF out.exc = "none" THEN Returned(None) ELSE Raised(out.exc)
           /\ searcher' = out.self
           /\ has_prepared' = (has_prepared \/ out.exc = "none")
    /\ UNCHANGED <<call, must_default, sent, indices>>

ExecuteAfterPrepare ==
    /\ call.op = "prepare" /\ ret.exc # "pending"
    /\ \E a \in ExecArgs :
        LET out == ExecuteOutcome(searcher, a[1], a[2], a[3])
        IN  /\ call' = [op |-> "execute", limit |-> a[1], offset |-> a[2],
                        engineTotal |-> a[3]]
            /\ ret' = out.result
            /\ sent' = out.sent
    /\ UNCHANGED <<must_default, searcher, has_prepared, indices>>

NextPrepare ==
    \/ PrepareCall
    \/ ExecuteAfterPrepare

SpecPrepare == InitPrepare /\ [][NextPrepare]_vars

----------------------------------------------------------------------------
(* The Searcher specification: any sequence of prepare and execute calls on *)
(* one Searcher constructed without a search object.                        *)

(* params of a later call: none, a text, a key prepare cannot resolve, a    *)
(* value sanitize_input rejects                                             *)
SearcherParams ==
    {NoParams} \cup {[k \in {key} |-> Str(<<"a">>)] : key \in {"fulltext", "parent", "models"}}
    \cup {[k \in {"fulltext"} |-> ListOf(<<"a">>)]}

InitSearcher ==
    /\ call = NoCall
    /\ ret = Returned(None)
    /\ must_default = <<>>
    /\ has_prepared = FALSE
    /\ indices = AllIndices
    /\ sent = <<>>
    /\ searcher = FreshSearcher

SearcherPrepare ==
    \E params \in SearcherParams, cfg \in Configs :
        LET out == prepare(searcher, params, cfg)
        IN  /\ call' = [op |-> "prepare", params |-> params, cfg |-> cfg,
                        prior |-> searcher]
            /\ ret' = IF out.exc = "none" THEN Returned(None) ELSE Raised(out.exc)
            /\ searcher' = out.self
            /\ has_prepared' = (has_prepared \/ out.exc = "none")
            /\ sent' = <<>>
            /\ UNCHANGED <<must_default, indices>>

SearcherExecute ==
    \E a \in ExecArgs :
        LET out == ExecuteOutcome(searcher, a[1], a[2], a[3])
        IN  /\ call' = [op |-> "execute", limit |-> a[1], offset |-> a[2],
                        engineTotal |-> a[3]]
            /\ ret' = out.result
            /\ sent' = out.sent
            /\ UNCHANGED <<must_default, searcher, has_prepared, indices>>

NextSearcher ==
    \/ SearcherPrepare
    \/ SearcherExecute

SpecSearcher == InitSearcher /\ [][NextSearcher]_vars

----------------------------------------------------------------------------
(* search(), search.py: the module's entry point.  models and filters are   *)
(* lists, a filter is a text, page is None or an int.  SEARCH_MODELS is no  *)
(* name of the module (its definition is commented out) and Searcher() is   *)
(* called without the ds argument __init__ requires: the first raises       *)
(* NameError, the second TypeError before prepare or execute is called.     *)
(* The Exception of the page-and-offset test is made and dropped, and the   *)
(* offset es_offset gives for the page is never used: limit, offset and     *)
(* page do not change what the call does.                                   *)

search(models, filters, limit, offset, page) ==
    IF models = <<>> THEN Raised("NameError")
    ELSE IF \E i \in 1 .. Len(filters) : CountOf(filters[i], ":") # 1
    THEN Raised("ValueError")
    ELSE Raised("TypeError")

(* The entry specification: one call of search() *)

EntryCalls ==
    {[op |-> "search_entry", models |-> m, filters |-> f, limit |-> l,
      offset |-> o, page |-> p] :
        m \in {<<>>, <<"entity">>},
        f \in {<<>>, << <<"t", ":", "1">> >>, << <<"t">> >>},
        l \in 0 .. MaxPageSize,
        o \in 0 .. MaxOffset,
        p \in {None} \cup {Some(n) : n \in 0 .. MaxPage}}

InitEntry ==
    /\ call \in EntryCalls
    /\ ret = Pending
    /\ must_default = <<>>
    /\ has_prepared = FALSE
    /\ indices = AllIndices
    /\ sent = <<>>
    /\ searcher = FreshSearcher

SearchEntryCall ==
    /\ call.op = "search_entry" /\ ret.exc = "pending"
    /\ ret' = search(call.models, call.filters, call.limit, call.offset, call.page)
    /\ UNCHANGED <<call, must_default, sent, searcher, has_prepared, indices>>

NextEntry == SearchEntryCall

SpecEntry == InitEntry /\ [][NextEntry]_vars

----------------------------------------------------------------------------
(* The administration specification: any sequence of create_index,          *)
(* create_indices, delete_index, delete_indices and reindex calls of one    *)
(* DocstoreManager whose index_prefix is ddr, on an engine holding any of   *)
(* the three indices.                                                       *)

InitAdmin ==
    /\ call = NoCall
    /\ ret = Returned(None)
    /\ must_default = <<>>
    /\ has_prepared = FALSE
    /\ sent = <<>>
    /\ searcher = FreshSearcher
    /\ indices \in SUBSET AllIndices

DeleteIndexCall ==
    \E indexname \in AllIndices :
        LET out == delete_index(indices, indexname)
        IN  /\ call' = [op |-> "delete_index", indexname |-> indexname,
                        existing |-> indices]
            /\ ret' = out.result
            /\ sent' = out.sent
            /\ indices' = out.indices
            /\ UNCHANGED <<must_default, searcher, has_prepared>>

DeleteIndicesCall ==
    \E i \in DOMAIN Doctypes3, j \in DOMAIN Doctypes3 :
        LET doctypes == IF i = j THEN <<Doctypes3[i]>> ELSE <<Doctypes3[i], Doctypes3[j]>>
            out == delete_indices(indices, "ddr", doctypes)
        IN  /\ call' = [op |-> "delete_indices", doctypes |-> doctypes,
                        existing |-> indices]
            /\ ret' = out.result
            /\ sent' = out.sent
            /\ indices' = out.indices
            /\ UNCHANGED <<must_default, searcher, has_prepared>>

ReindexCall ==
    \E source \in AllIndices, dest \in AllIndices, newApi \in BOOLEAN :
        LET out == reindex(indices, source, dest, newApi)
        IN  /\ call' = [op |-> "reindex", source |-> source, dest |-> dest,
                        existing |-> indices]
            /\ ret' = out.result
            /\ sent' = out.sent
            /\ UNCHANGED <<must_default, searcher, has_prepared, indices>>

(* what init of the document class returns: nothing, or the engine's answer *)
InitOutcomes == {None, Some([t |-> "response", acknowledged |-> TRUE])}

CreateIndexCall ==
    \E indexname \in AllIndices, out \in InitOutcomes, kept \in BOOLEAN :
        LET done == create_index(indices, indexname, out, kept)
        IN  /\ call' = [op |-> "create_index", indexname |-> indexname,
                        existing |-> indices]
            /\ ret' = done.result
            /\ sent' = done.sent
            /\ indices' = done.indices
            /\ UNCHANGED <<must_default, searcher, has_prepared>>

CreateIndicesCall ==
    \E i \in DOMAIN Doctypes3, j \in DOMAIN Doctypes3, kept \in BOOLEAN :
        LET doctypes == IF i = j THEN <<Doctypes3[i]>> ELSE <<Doctypes3[i], Doctypes3[j]>>
            done == create_indices(indices, "ddr", doctypes, None, kept)
        IN  /\ call' = [op |-> "create_indices", doctypes |-> doctypes,
                        existing |-> indices]
            /\ ret' = done.result
            /\ sent' = done.sent
            /\ indices' = done.indices
            /\ UNCHANGED <<must_default, searcher, has_prepared>>

NextAdmin ==
    \/ CreateIndexCall
    \/ CreateIndicesCall
    \/ DeleteIndexCall
    \/ DeleteIndicesCall
    \/ ReindexCall

SpecAdmin == InitAdmin /\ [][NextAdmin]_vars

----------------------------------------------------------------------------
(* The cluster specification: one call of cluster() *)

ClusterCalls ==
    {[op |-> "cluster", clusters |-> c, ipaddr_port |-> a] :
        c \in {Config("str", text, <<>>) :
                  text \in {"", "{", "green", "null", "{}", "[\"10.0.0.1\"]",
                            "{\"green\":5}",
                            "{\"green\":[\"10.0.0.1\"],\"blue\":[\"10.0.0.2\",\"10.0.0.1\"]}"}}
              \cup {Config("dict", "", SampleClusters), Config("list", "", <<>>),
                    Config("NoneType", "", <<>>)},
        a \in {[t |-> "str", parts |-> p] :
                  p \in {<<"10.0.0.1", "9200">>, <<"10.0.0.2", "9200">>,
                         <<"10.0.0.3", "9200">>, <<"10.0.0.1">>, <<"">>}}
              \cup {[t |-> "NoneType", parts |-> <<>>]}}

InitCluster ==
    /\ call \in ClusterCalls
    /\ ret = Pending
    /\ must_default = <<>>
    /\ has_prepared = FALSE
    /\ indices = AllIndices
    /\ sent = <<>>
    /\ searcher = FreshSearcher

ClusterCall ==
    /\ call.op = "cluster" /\ ret.exc = "pending"
    /\ ret' = cluster(call.clusters, call.ipaddr_port)
    /\ UNCHANGED <<call, must_default, sent, searcher, has_prepared, indices>>

NextCluster == ClusterCall

SpecCluster == InitCluster /\ [][NextCluster]_vars

----------------------------------------------------------------------------
(* The presentation specification: a SearchResults built from a count, then *)
(* to_dict on it, with a request or without one.                            *)

Item(key, val) == [key |-> key, val |-> val]

(* the values of a request's GET are texts *)
RequestParams ==
    {<<>>,
     <<Item("fulltext", Str(<<"a">>))>>,
     <<Item("fulltext", Str(<<"a">>)), Item("offset", Str(<<"0">>))>>,
     <<Item("fulltext", Str(<<"a">>)), Item("offset", Str(<<>>))>>,
     <<Item("page", Str(<<"2">>)), Item("fulltext", Str(<<"a">>)),
       Item("limit", Str(<<"1">>)), Item("offset", Str(<<"1">>))>>}

DirectParams ==
    RequestParams
    \cup {<<Item("fulltext", Str(<<"a">>)), Item("offset", IntValue(o))>> :
             o \in 0 .. 1}
    \cup {<<Item("match_all", Bool(TRUE))>>}

Requests ==
    {[GET |-> g, scheme |-> "https", HTTP_HOST |-> h, path_info |-> p] :
        g \in RequestParams,
        h \in {None, Some("ddr.example.org")},
        p \in {<<"/api/search/">>, <<"/browse/", "short", " ", "stories", "/">>}}

(* a request brings its own params; without one they are the SearchResults' *)
RequestsFor(ps) == {None} \cup {Some(r) : r \in {q \in Requests : q.GET = ps}}

PresentCalls ==
    UNION {{[op |-> "to_dict", params |-> ps, request |-> rq, limit |-> l,
             offset |-> o, count |-> c] :
               rq \in RequestsFor(ps),
               l \in 1 .. MaxPageSize, o \in 0 .. MaxOffset, c \in 0 .. MaxTotal} :
           ps \in DirectParams}

InitPresent ==
    /\ call \in PresentCalls
    /\ ret = Pending
    /\ must_default = <<>>
    /\ has_prepared = FALSE
    /\ indices = AllIndices
    /\ sent = <<>>
    /\ searcher = FreshSearcher

ToDictCall ==
    /\ call.op = "to_dict" /\ ret.exc = "pending"
    /\ LET built == SearchResults(call.params, NoParams, call.count, None, <<>>,
                                  Some(call.limit), Some(call.offset))
       IN  ret' = IF built.exc # "none" THEN built
                  ELSE to_dict(built.val, call.request)
    /\ UNCHANGED <<call, must_default, sent, searcher, has_prepared, indices>>

NextPresent == ToDictCall

SpecPresent == InitPresent /\ [][NextPresent]_vars

----------------------------------------------------------------------------
(* Properties of the pagination specification *)

IsBuilt == call.op \in {"SearchResults", "execute"} /\ ret.exc = "none"

(* C1: for every page size > 0 and page >= 1, django_page applied to the    *)
(* offset es_offset returned for that page, with the same page size,        *)
(* returns the page.                                                        *)
C1_PageRoundTrip ==
    (/\ call.op = "django_page"
     /\ call.of_page # None
     /\ ret.exc # "pending"
     /\ call.limit > 0
     /\ call.of_page[1] >= 1)
    => (ret.exc = "none" /\ ret.val = call.of_page[1])

C1_Witness ==
    /\ call.op = "django_page"
    /\ call.of_page = Some(3)
    /\ call.limit = 10
    /\ call.offset = 20
    /\ ret.exc = "none"
    /\ ret.val = 3

(* C2: in every SearchResults, however built, next_offset is unset when     *)
(* offset + limit >= total and is offset + limit otherwise; prev_offset is  *)
(* unset when offset - limit < 0 and is offset - limit otherwise.           *)
C2_PrevNextOffsets ==
    IsBuilt =>
        LET sr == ret.val
        IN  /\ sr.next_offset =
                   (IF sr.offset + sr.limit >= sr.total
                    THEN None ELSE Some(sr.offset + sr.limit))
            /\ sr.prev_offset =
                   (IF sr.offset - sr.limit < 0
                    THEN None ELSE Some(sr.offset - sr.limit))

C2_Witness ==
    /\ IsBuilt
    /\ ret.val.offset = 20
    /\ ret.val.limit = 10
    /\ ret.val.total = 25
    /\ ret.val.next_offset = None
    /\ ret.val.prev_offset = Some(10)

(* C3: the SearchResults execute returns has total equal to the total the   *)
(* engine reported, for every offset, also one at or beyond the total.      *)
C3_TotalIsEngineTotal ==
    (call.op = "execute" /\ ret.exc = "none" /\ call.limit > 0 /\ call.offset >= 0)
    => ret.val.total = call.engineTotal

(* A SearchResults built from an engine response that reports zero results *)
BuiltFromZeroResults ==
    /\ IsBuilt
    /\ \/ call.op = "SearchResults" /\ call.built = "results"
                                    /\ call.results[1].total = 0
       \/ call.op = "execute" /\ call.engineTotal = 0
    /\ ret.val.limit > 0
    /\ ret.val.offset >= 0

(* C4 as claimed: a SearchResults built from a zero-result response has     *)
(* total 0 and next_offset and prev_offset unset, for every limit > 0 and   *)
(* offset >= 0.                                                             *)
C4_ZeroResultsAllUnset ==
    BuiltFromZeroResults =>
        /\ ret.val.total = 0
        /\ ret.val.next_offset = None
        /\ ret.val.prev_offset = None

(* C4 as amended: a SearchResults built from a zero-result response has     *)
(* total 0 and next_offset unset for every limit > 0 and offset >= 0;       *)
(* prev_offset is unset exactly when offset < limit and is offset - limit   *)
(* otherwise.                                                               *)
C4_ZeroResults ==
    BuiltFromZeroResults =>
        /\ ret.val.total = 0
        /\ ret.val.next_offset = None
        /\ (ret.val.prev_offset = None) <=> (ret.val.offset < ret.val.limit)
        /\ ret.val.offset >= ret.val.limit
               => ret.val.prev_offset = Some(ret.val.offset - ret.val.limit)

C4_Witness ==
    /\ BuiltFromZeroResults
    /\ call.op = "SearchResults"
    /\ ret.val.offset = 0
    /\ ret.val.total = 0
    /\ ret.val.next_offset = None
    /\ ret.val.prev_offset = None

(* C18: es_offset(pagesize, thispage) returns pagesize * max(thispage - 1,  *)
(* 0) for every page size and page: pages 1, 2, 3 of size 10 give 0, 10,    *)
(* 20, and every page <= 1 gives 0.                                         *)
C18_EsOffsetFormula ==
    (call.op = "es_offset" /\ ret.exc # "pending") =>
        /\ ret = Returned(call.pagesize * Max(call.thispage - 1, 0))
        /\ call.thispage <= 1 => ret.val = 0
        /\ (call.pagesize = 10 /\ call.thispage \in 1 .. 3)
               => ret.val = 10 * (call.thispage - 1)

C18_Witness ==
    /\ call.op = "es_offset"
    /\ call.pagesize = 10
    /\ call.thispage = 3
    /\ ret = Returned(20)

(* C19: es_offset, django_page and start_stop return a value and never      *)
(* fail, for every pair of integer arguments, a limit or page size of 0     *)
(* and negative values included.                                            *)
C19_PaginationTotal ==
    (call.op \in {"es_offset", "start_stop", "django_page"} /\ ret.exc # "pending")
    => ret.exc = "none"

----------------------------------------------------------------------------
(* Properties of the query specification *)

NoMust(must) == must = Omitted \/ must = Given(<<>>)

(* C5: search_query called with no text, no must, should or mustnot clause  *)
(* and no aggregations raises a usage fault instead of returning a body.    *)
C5_EmptyAssemblyRaises ==
    (/\ call.op = "search_query"
     /\ call.text = ""
     /\ NoMust(call.must)
     /\ call.should = <<>>
     /\ call.mustnot = <<>>
     /\ call.aggs = {})
    => ret.exc \notin {"none", "pending"}

(* C6: Docstore.count and Docstore.search called with an empty query raise  *)
(* a usage fault, and that call sends no request to the engine.             *)
C6_EmptyQueryRejectedUnsent ==
    (call.op \in {"count", "search"} /\ call.query = <<>>)
    => (ret.exc = "Exception" /\ sent = <<>>)

C6_Witness ==
    /\ call.op = "search"
    /\ call.query = <<>>
    /\ ret.exc = "Exception"
    /\ sent = <<>>

(* C7: every search_query call made with a text and without a must list     *)
(* returns a must list holding exactly one clause, the match clause of its  *)
(* text, however many calls came before it.                                 *)
C7_OneMatchClause ==
    (call.op = "search_query" /\ call.text # "" /\ call.must = Omitted)
    => (ret.exc = "none"
        /\ ret.val.query.bool.must = <<MatchClause(call.text)>>)

----------------------------------------------------------------------------
(* Properties of the sanitizing specification *)

ClaimedBadChars == {"!", "+", "/", ":", "[", "]", "^", "{", "}", "~"}

HasAdjacentSpaces(text) ==
    \E i \in 1 .. Len(text) - 1 : text[i] = " " /\ text[i + 1] = " "

SanitizedStr == call.op = "sanitize_input" /\ call.text.t = "str" /\ ret.exc # "pending"

(* C8: sanitize_input applied to any string returns a text that holds none  *)
(* of ! + / : [ ] ^ { } ~ and no two adjacent spaces; a boolean is          *)
(* returned unchanged.                                                      *)
C8_NoBadCharsNoDoubleSpace ==
    /\ SanitizedStr =>
           /\ ret.exc = "none"
           /\ \A i \in 1 .. Len(ret.val.v) : ret.val.v[i] \notin ClaimedBadChars
           /\ ~HasAdjacentSpaces(ret.val.v)
    /\ (call.op = "sanitize_input" /\ call.text.t = "bool" /\ ret.exc # "pending")
           => ret = Returned(call.text)

(* the text sanitize_input has before it looks at the quotes *)
BeforeQuotes == ReplaceDoubleSpace(RemoveChars(call.text.v, BAD_SEARCH_CHARS))

(* C9: when the text holds an odd number of double quotes exactly one       *)
(* quote, the last of the text, is escaped with a backslash and every other *)
(* quote is unchanged; when the number is even no quote is changed.         *)
C9_OnlyLastQuoteEscaped ==
    SanitizedStr =>
        /\ ret.exc = "none"
        /\ ret.val.v = (IF CountOf(BeforeQuotes, "\"") % 2 = 1
                        THEN EscapeLastQuote(BeforeQuotes)
                        ELSE BeforeQuotes)

----------------------------------------------------------------------------
(* Properties of the preparation specification *)

(* p and q differ only in keys that are neither whitelisted nor 'page' *)
DifferOnlyUnlisted(p, q, params_whitelist) ==
    Restrict(p, params_whitelist \cup {"page"}) = Restrict(q, params_whitelist \cup {"page"})

(* C10: prepare discards every parameter whose key is not whitelisted       *)
(* (other than page): a prepare call that completes builds the same query   *)
(* as any completing prepare call, on the same Searcher and with the same   *)
(* other arguments, whose params differ only in such keys.                  *)
C10_UnlistedKeysDiscarded ==
    (call.op = "prepare" /\ ret.exc = "none") =>
        \A q \in ParamSets :
            DifferOnlyUnlisted(q, call.params, call.cfg.params_whitelist) =>
                LET twin == prepare(call.prior, q, call.cfg)
                IN  twin.exc = "none" => twin.self.s = searcher.s

(* a prepare call has returned: the params it worked on, after the          *)
(* sanitizing copy and the scrub, and the query object it built             *)
Prepared == call.op = "prepare" /\ ret.exc = "none"
PreparedParams == Scrub(searcher.params, call.cfg.params_whitelist)
PreparedQuery == searcher.s[1].query
PreparedFilters == searcher.s[1].filters

RelationKeys == {"creators", "persons", "topics", "facility"}

(* the kind of the one primary clause the priority order gives the params *)
ClaimedPrimaryKind(p) ==
    IF Has(p, "match_all") THEN "match_all"
    ELSE IF Has(p, "fulltext") THEN "query_string"
    ELSE IF \E k \in RelationKeys : Has(p, k) THEN "nested"
    ELSE IF Has(p, "parent") THEN "wildcard"
    ELSE "none"

(* C11: prepare puts exactly one primary clause in the query, chosen by     *)
(* priority match_all, else the fulltext query string, else a nested lookup *)
(* on creators, persons, topics or facility, else the parent wildcard: a    *)
(* clause of lower priority is absent whenever a parameter of higher        *)
(* priority is present.                                                     *)
C11_OnePrimaryClause ==
    (Prepared /\ ClaimedPrimaryKind(PreparedParams) # "none") =>
        /\ Len(PreparedQuery) = 1
        /\ PreparedQuery[1].kind = ClaimedPrimaryKind(PreparedParams)

NestedClauseOn(key) ==
    \E i \in 1 .. Len(PreparedQuery) :
        /\ PreparedQuery[i].kind = "nested"
        /\ PreparedQuery[i].field \in {key \o ".id", key \o ".namepart"}

DenormFilterOn(key, value) ==
    /\ TermFilter(key, TRUE, value) \in PreparedFilters
    /\ \A f \in PreparedFilters : f.field = key => f = TermFilter(key, TRUE, value)

(* the non-empty whitelisted parameters on a field declared in fields_nested *)
NestedFieldParams ==
    {k \in (DOMAIN PreparedParams) \cap call.cfg.fields_nested : Truthy(PreparedParams[k])}

(* C12 as claimed: a non-empty parameter on a field declared in             *)
(* fields_nested always produces a term filter on the field's _id key and   *)
(* never a nested clause on that field, whatever other parameters are       *)
(* supplied.                                                                *)
C12_NestedFieldAlwaysFilter ==
    Prepared =>
        \A k \in NestedFieldParams :
            DenormFilterOn(k, PreparedParams[k]) /\ ~NestedClauseOn(k)

(* the parameter is the one the primary clause is made of: no match_all,    *)
(* fulltext, creators or persons is given, and it is topics, or facility    *)
(* without topics                                                           *)
IsPrimaryRelation(p, k) ==
    /\ ~Has(p, "match_all") /\ ~Has(p, "fulltext")
    /\ \/ k = "creators"
       \/ k = "persons" /\ ~Has(p, "creators")
       \/ k = "topics" /\ ~Has(p, "creators") /\ ~Has(p, "persons")
       \/ k = "facility" /\ ~Has(p, "creators") /\ ~Has(p, "persons")
                         /\ ~Has(p, "topics")

(* C12 as amended: a non-empty whitelisted parameter on a field declared in *)
(* fields_nested produces a term filter on the field's _id key and no       *)
(* nested clause on the field, unless the parameter is the one the primary  *)
(* clause is made of: then it produces the nested clause and no filter.     *)
C12_NestedFieldFilter ==
    Prepared =>
        \A k \in NestedFieldParams :
            IF IsPrimaryRelation(PreparedParams, k)
            THEN /\ NestedClauseOn(k)
                 /\ \A f \in PreparedFilters : f.field # k
            ELSE DenormFilterOn(k, PreparedParams[k]) /\ ~NestedClauseOn(k)

C12_Witness ==
    /\ Prepared
    /\ call.cfg = BrowseConfig
    /\ DOMAIN call.params = {"fulltext", "topics"}
    /\ "topics" \in NestedFieldParams
    /\ DenormFilterOn("topics", Str(<<"a">>))
    /\ ~NestedClauseOn("topics")

(* the param is the one a clause of the query was made of *)
UsedForClause(k) ==
    \/ k = "match_all" /\ Has(PreparedParams, "match_all")
    \/ NestedClauseOn(k)
    \/ \E i \in 1 .. Len(PreparedQuery) :
           \/ k = "fulltext" /\ PreparedQuery[i].kind = "query_string"
           \/ k = "parent" /\ PreparedQuery[i].kind = "wildcard"

(* C21: prepare adds a filter for a parameter if and only if the parameter  *)
(* was not used for a clause of the query, its key is whitelisted and its   *)
(* value is not empty: an empty value never produces a filter, on a nested  *)
(* field or not, and match_all is not applied again as a term filter.  The  *)
(* published_rg filter of the encyclopedia front is none of these.          *)
C21_FilterIffWhitelistedNonEmpty ==
    Prepared =>
        \A k \in Keys \ {"published_rg"} :
            (\E f \in PreparedFilters : f.field = k)
            <=> (/\ k \in DOMAIN PreparedParams
                 /\ k \in call.cfg.params_whitelist
                 /\ Truthy(PreparedParams[k])
                 /\ ~UsedForClause(k))

(* the characters of a text as one string *)
RECURSIVE TextOf(_)
TextOf(v) == IF v = <<>> THEN "" ELSE Head(v) \o TextOf(Tail(v))

(* C22: a prepare call whose whitelisted params hold a non-empty models     *)
(* value completes and targets the index index_name gives for the model;    *)
(* any other prepare call targets the search_models list of the caller.     *)
(* Calls whose params sanitize_input rejects are left aside.                *)
C22_TargetIndices ==
    (call.op = "prepare" /\ ret.exc \notin {"pending", "AssertionError"}) =>
        /\ ret.exc = "none"
        /\ IF Has(PreparedParams, "models")
           THEN searcher.s[1].index
                    = <<index_name("ddr", TextOf(PreparedParams["models"].v))>>
           ELSE searcher.s[1].index = call.cfg.search_models

----------------------------------------------------------------------------
(* Properties of the Searcher specification *)

(* C13: on a Searcher constructed without a search object, execute called   *)
(* before any prepare has returned raises the usage fault and sends the     *)
(* engine no request; once a prepare has returned, execute never raises     *)
(* that fault.                                                              *)
C13_ExecuteNeedsPrepare ==
    (call.op = "execute" /\ ret.exc # "pending") =>
        /\ ~has_prepared => (ret.exc = "Exception" /\ sent = <<>>)
        /\ has_prepared => ret.exc # "Exception"

C13_Witness ==
    /\ call.op = "execute"
    /\ has_prepared
    /\ ret.exc = "none"
    /\ Len(sent) = 1

(* C24: on one Searcher, the query a prepare call builds and the params it  *)
(* records depend only on the arguments of the call, whatever calls came    *)
(* before: they are those the same call gives on a Searcher just            *)
(* constructed.  A prepare with empty params after one with params builds   *)
(* a query with no clause or filter of the earlier call.                    *)
C24_PrepareDependsOnArguments ==
    (call.op = "prepare" /\ ret.exc = "none") =>
        LET alone == prepare(FreshSearcher, call.params, call.cfg)
        IN  /\ alone.exc = "none"
            /\ searcher.s = alone.self.s
            /\ searcher.params = alone.self.params

----------------------------------------------------------------------------
(* Properties of the entry specification *)

(* C14: search() called with a non-zero offset and a page rejects the       *)
(* request: it raises the caller error made for that case, and neither      *)
(* prepares a query nor sends the engine a request.                         *)
C14_OffsetAndPageRejected ==
    (/\ call.op = "search_entry" /\ ret.exc # "pending"
     /\ call.offset # 0
     /\ call.page # None /\ call.page[1] # 0)
    => (ret.exc = "Exception" /\ ~has_prepared /\ sent = <<>>)

----------------------------------------------------------------------------
(* Properties of the administration specification *)

RequestsOf(op) == {i \in 1 .. Len(sent) : sent[i].op = op}

(* request i comes after an existence check of the index *)
CheckedBefore(i, indexname) ==
    \E j \in 1 .. i - 1 : sent[j] = ExistsRequest(indexname)

IsFailureStatus(value) == value.t \in {"dict", "str"} /\ value.status = 500

(* C15: delete_index on an index that does not exist, and reindex when the  *)
(* source or the destination index does not exist, return a status value    *)
(* with status 500 instead of raising and send the engine no delete or      *)
(* reindex request; delete_indices gives that status for each missing index *)
(* and goes on; every delete or reindex request comes after the existence   *)
(* check of the indices it names.                                           *)
C15_MissingIndexStatus ==
    /\ (call.op = "delete_index" /\ call.indexname \notin call.existing) =>
           /\ ret.exc = "none" /\ IsFailureStatus(ret.val)
           /\ RequestsOf("delete") = {}
           /\ indices = call.existing
    /\ (call.op = "reindex"
        /\ (call.source \notin call.existing \/ call.dest \notin call.existing)) =>
           /\ ret.exc = "none" /\ IsFailureStatus(ret.val)
           /\ RequestsOf("reindex") = {} /\ RequestsOf("info") = {}
    /\ call.op = "delete_indices" =>
           /\ ret.exc = "none"
           /\ Len(ret.val) = Len(call.doctypes)
           /\ \A i \in 1 .. Len(call.doctypes) :
                  ("ddr" \o call.doctypes[i]) \notin call.existing
                      => IsFailureStatus(ret.val[i])
           /\ \A i \in RequestsOf("delete") : sent[i].index \in call.existing
    /\ \A i \in RequestsOf("delete") : CheckedBefore(i, sent[i].index)
    /\ \A i \in RequestsOf("reindex") :
           CheckedBefore(i, sent[i].source) /\ CheckedBefore(i, sent[i].dest)

C15_Witness ==
    /\ call.op = "delete_index"
    /\ call.indexname \notin call.existing
    /\ ret.exc = "none"
    /\ ret.val.status = 500
    /\ sent = <<ExistsRequest(call.indexname)>>

(* C23: create_index on an index that exists returns the Index exists       *)
(* status (400) and sends no create request; on a missing index it sends    *)
(* the create request; in every case, whatever that request returns, the    *)
(* call returns a status value.                                             *)
C23_CreateOnlyIfMissing ==
    call.op = "create_index" =>
        /\ call.indexname \in call.existing =>
               /\ ret = Returned([t |-> "str", status |-> 400, message |-> "Index exists"])
               /\ RequestsOf("create") = {}
        /\ call.indexname \notin call.existing => RequestsOf("create") # {}
        /\ ret.exc = "none"

----------------------------------------------------------------------------
(* Properties of the cluster specification *)

(* the configuration is an empty text, a text that is no JSON document, or  *)
(* holds something else than a mapping                                      *)
MalformedConfig(clusters) ==
    \/ clusters.t = "str" /\ clusters.text = ""
    \/ clusters.t = "str" /\ json_loads(clusters.text).exc # "none"
    \/ clusters.t = "str" /\ json_loads(clusters.text).exc = "none"
                          /\ json_loads(clusters.text).val.t # "dict"

(* C16: cluster() reports every malformed configuration, an empty text, a   *)
(* text that is no JSON, or JSON of another shape than a mapping such as a  *)
(* list, by returning a text, and never raises for one.                     *)
C16_MalformedConfigReported ==
    (call.op = "cluster" /\ ret.exc # "pending" /\ MalformedConfig(call.clusters))
    => ret.exc = "none"

----------------------------------------------------------------------------
(* Properties of the presentation specification *)

(* the percent-encoded separators of a link, decoded *)
Unquoted(text) ==
    [i \in DOMAIN text |->
        CASE text[i] = "%26" -> "&"
          [] text[i] = "%3D" -> "="
          [] OTHER -> text[i]]

(* the text of a link after its question mark *)
QueryOf(link) ==
    LET q == CHOOSE i \in DOMAIN link : link[i] = "?"
    IN  Unquoted(SubSeq(link, q + 1, Len(link)))

(* the pieces of a text between its & separators *)
RECURSIVE SplitAmp(_)
SplitAmp(text) ==
    IF \A i \in DOMAIN text : text[i] # "&" THEN <<text>>
    ELSE LET i == CHOOSE j \in DOMAIN text :
                      text[j] = "&" /\ \A k \in 1 .. j - 1 : text[k] # "&"
         IN  <<SubSeq(text, 1, i - 1)>> \o SplitAmp(SubSeq(text, i + 1, Len(text)))

(* the parameters a link carries, in order: key=value pieces; an empty      *)
(* piece is none                                                            *)
LinkParams(link) ==
    LET pieces == SelectSeq(SplitAmp(QueryOf(link)),
                            LAMBDA piece : Len(piece) >= 2 /\ piece[2] = "=")
    IN  [i \in DOMAIN pieces |->
            [key |-> pieces[i][1], val |-> SubSeq(pieces[i], 3, Len(pieces[i]))]]

(* the parameters to_dict was given: the request's, else the SearchResults' *)
OriginalParams == IF call.request # None THEN call.request[1].GET ELSE call.params

(* the original parameters without page, limit and offset, as texts *)
CarriedParams ==
    LET kept == SelectSeq(OriginalParams,
                          LAMBDA it : it.key \notin {"page", "limit", "offset"})
    IN  [i \in DOMAIN kept |-> [key |-> kept[i].key, val |-> strdammit(kept[i].val)]]

WithKey(pairs, key) == SelectSeq(pairs, LAMBDA pr : pr.key = key)

(* the link carries the original parameters, the limit and one offset *)
LinkCarries(link, offset) ==
    LET pairs == LinkParams(link)
    IN  /\ SelectSeq(pairs, LAMBDA pr : pr.key \notin {"limit", "offset"}) = CarriedParams
        /\ WithKey(pairs, "limit") = <<[key |-> "limit", val |-> <<ToString(ret.val.limit)>>]>>
        /\ WithKey(pairs, "offset") = <<[key |-> "offset", val |-> <<ToString(offset)>>]>>

(* C17: in the presented structure prev_api is not empty exactly when       *)
(* prev_offset is set and next_api exactly when next_offset is set; each    *)
(* link carries the original parameters without page, limit and offset,     *)
(* the limit of the page, and exactly one offset parameter, prev_offset     *)
(* resp. next_offset, for every original offset value, 0 included.          *)
C17_PrevNextLinks ==
    (call.op = "to_dict" /\ ret.exc = "none") =>
        /\ (ret.val.prev_api # <<>>) <=> (ret.val.prev_offset # None)
        /\ (ret.val.next_api # <<>>) <=> (ret.val.next_offset # None)
        /\ ret.val.prev_offset # None
               => LinkCarries(ret.val.prev_api, ret.val.prev_offset[1])
        /\ ret.val.next_offset # None
               => LinkCarries(ret.val.next_api, ret.val.next_offset[1])

====
